---- MODULE Spec2Model ----
(***************************************************************************)
(* Model of the content trend analyzer's processing core:                  *)
(*   backend/utils/helpers.py          text, sentiment, engagement helpers *)
(*   backend/services/data_processor.py  DataProcessor                     *)
(*   backend/utils/database.py         DatabaseManager (content_items)     *)
(*   mcp_integration/context_manager.py  ContextManager                    *)
(*                                                                         *)
(* Python values are modelled as tagged records [t |-> type, v |-> value]. *)
(* A dict (content item) is a function whose DOMAIN is the set of keys     *)
(* present.  Text is a sequence of one-character strings.  A float is an   *)
(* exact fraction [n, d] in lowest terms; the input grids (counts, 6-hour  *)
(* clock ticks, polarities in hundredths) are chosen so that no value      *)
(* handed to round() is a decimal tie, hence binary rounding cannot change *)
(* the result.                                                             *)
(*                                                                         *)
(* A value that a definition uses more than once is handed to a helper     *)
(* operator as an argument rather than named in a LET.                     *)
(***************************************************************************)
EXTENDS Integers, Sequences, FiniteSets, TLC

VARIABLES
    now,            \* wall clock (datetime.now()), in ticks of TickHours hours
    content_items,  \* the caller's list of content items (mutated in place)
    result,         \* record of the last call: operation, arguments, outcome
    rows,           \* the rows of the table content_items of trends.db
    contexts        \* ContextManager.contexts: context_id -> context

vars == <<now, content_items, result, rows, contexts>>

----------------------------------------------------------------------------
(* Python values *)

None == [t |-> "none", v |-> 0]
PyInt(n) == [t |-> "int", v |-> n]
PyStr(s) == [t |-> "str", v |-> s]
PyList(l) == [t |-> "list", v |-> l]
PyDict(d) == [t |-> "dict", v |-> d]
\* the str that datetime.isoformat() gives for clock tick k
PyIso(k) == [t |-> "isostr", v |-> k]

RECURSIVE GCD(_, _)
GCD(a, b) == IF b = 0 THEN a ELSE GCD(b, a % b)

Abs(x) == IF x < 0 THEN -x ELSE x

\* the float n/d, in lowest terms with d > 0
Reduced(n, d, g, s) == [t |-> "float", v |-> [n |-> s * (n \div g), d |-> s * (d \div g)]]
Frac(n, d) == Reduced(n, d, GCD(Abs(n), Abs(d)), IF d < 0 THEN -1 ELSE 1)

IsNum(x) == x.t \in {"int", "float"}
Num(x) == IF x.t = "int" THEN x.v ELSE x.v.n
Den(x) == IF x.t = "int" THEN 1 ELSE x.v.d

FAdd(a, b) == Frac(Num(a) * Den(b) + Num(b) * Den(a), Den(a) * Den(b))
FSub(a, b) == Frac(Num(a) * Den(b) - Num(b) * Den(a), Den(a) * Den(b))
FMul(a, b) == Frac(Num(a) * Num(b), Den(a) * Den(b))
FDiv(a, b) == Frac(Num(a) * Den(b), Den(a) * Num(b))
FLt(a, b) == Num(a) * Den(b) < Num(b) * Den(a)
FLe(a, b) == Num(a) * Den(b) <= Num(b) * Den(a)
FEq(a, b) == Num(a) * Den(b) = Num(b) * Den(a)
FMin(a, b) == IF FLt(b, a) THEN b ELSE a
FAbs(a) == Frac(Abs(Num(a)), Den(a))

RECURSIVE Pow10(_)
Pow10(k) == IF k = 0 THEN 1 ELSE 10 * Pow10(k - 1)

\* num / den rounded to the nearest integer, ties to even; q is its floor
RoundQuotient(num, den, q) ==
    IF 2 * (num - q * den) < den THEN q
    ELSE IF 2 * (num - q * den) > den THEN q + 1
    ELSE IF q % 2 = 0 THEN q ELSE q + 1

\* round(x, k): nearest multiple of 10^-k, ties to even
Round(x, k) ==
    Frac(RoundQuotient(Num(x) * Pow10(k), Den(x), (Num(x) * Pow10(k)) \div Den(x)),
         Pow10(k))

\* bool(x)
Truthy(x) ==
    CASE x.t = "none" -> FALSE
      [] x.t = "int" -> x.v # 0
      [] x.t = "float" -> x.v.n # 0
      [] x.t = "str" -> x.v # <<>>
      [] x.t = "isostr" -> TRUE
      [] x.t = "list" -> x.v # <<>>
      [] x.t = "dict" -> DOMAIN x.v # {}

\* dict.get(key, default), `key in dict`, dict[key] = value
Get(item, key, default) == IF key \in DOMAIN item THEN item[key] ELSE default
Has(item, key) == key \in DOMAIN item
Put(item, key, value) ==
    [k \in DOMAIN item \cup {key} |-> IF k = key THEN value ELSE item[k]]

----------------------------------------------------------------------------
(* Characters *)

LowerLetters == <<"a","b","c","d","e","f","g","h","i","j","k","l","m",
                  "n","o","p","q","r","s","t","u","v","w","x","y","z">>
UpperLetters == <<"A","B","C","D","E","F","G","H","I","J","K","L","M",
                  "N","O","P","Q","R","S","T","U","V","W","X","Y","Z">>
Digits == {"0","1","2","3","4","5","6","7","8","9"}

Range(f) == {f[i] : i \in DOMAIN f}

\* \w and \s of the re module
WordChars == Range(LowerLetters) \cup Range(UpperLetters) \cup Digits \cup {"_"}
SpaceChars == {" ", "\t", "\n"}
IsWord(c) == c \in WordChars
IsSpace(c) == c \in SpaceChars

\* str.lower()
LowerOf == [c \in Range(UpperLetters) |->
               LowerLetters[CHOOSE i \in DOMAIN UpperLetters : UpperLetters[i] = c]]
LowerChar(c) == IF c \in DOMAIN LowerOf THEN LowerOf[c] ELSE c
Lower(s) == [i \in DOMAIN s |-> LowerChar(s[i])]

SetMin(S) == CHOOSE x \in S : \A y \in S : x <= y

FirstStop(s, stops) == IF stops = {} THEN Len(s) ELSE SetMin(stops) - 1

\* last index of the maximal run of characters satisfying P that starts at i
\* (i - 1 when s[i] does not satisfy P)
RunEnd(s, i, P(_)) == FirstStop(s, {j \in i..Len(s) : ~P(s[j])})

StartsAt(s, i, w) ==
    /\ i + Len(w) - 1 <= Len(s)
    /\ \A j \in 1..Len(w) : s[i + j - 1] = w[j]

----------------------------------------------------------------------------
(* backend/utils/helpers.py *)

NotSpace(c) == ~IsSpace(c)

\* re.findall(sigil + r'\w+', s), each match without its first character;
\* TagFrom takes the match that starts at i and ends at e
RECURSIVE FindAllTags(_, _, _)
TagFrom(s, i, e, sigil) == <<SubSeq(s, i + 1, e)>> \o FindAllTags(s, e + 1, sigil)
FindAllTags(s, i, sigil) ==
    IF i > Len(s) THEN <<>>
    ELSE IF s[i] = sigil /\ i < Len(s) /\ IsWord(s[i + 1])
    THEN TagFrom(s, i, RunEnd(s, i + 1, IsWord), sigil)
    ELSE FindAllTags(s, i + 1, sigil)

\* extract_hashtags without the lower-casing
extract_hashtags_keep_case(text) == FindAllTags(text, 1, "#")

extract_hashtags(text) == FindAllTags(Lower(text), 1, "#")

extract_mentions(text) == FindAllTags(Lower(text), 1, "@")

\* re.sub(r'http\S+|www\S+|https\S+', '', s): the third alternative can
\* never be the one that matches, the first matches wherever it would
RECURSIVE RemoveUrls(_, _)
RemoveUrls(s, i) ==
    IF i > Len(s) THEN <<>>
    ELSE IF \/ StartsAt(s, i, <<"h","t","t","p">>) /\ i + 4 <= Len(s) /\ NotSpace(s[i + 4])
            \/ StartsAt(s, i, <<"w","w","w">>) /\ i + 3 <= Len(s) /\ NotSpace(s[i + 3])
    THEN RemoveUrls(s, RunEnd(s, i, NotSpace) + 1)
    ELSE <<s[i]>> \o RemoveUrls(s, i + 1)

\* re.sub(r'[^\w\s]', ' ', s)
BlankSpecials(s) == [i \in DOMAIN s |-> IF IsWord(s[i]) \/ IsSpace(s[i]) THEN s[i] ELSE " "]

\* str.split(); WordFrom takes the word that starts at i and ends at e
RECURSIVE Split(_, _)
WordFrom(s, i, e) == <<SubSeq(s, i, e)>> \o Split(s, e + 1)
Split(s, i) ==
    IF i > Len(s) THEN <<>>
    ELSE IF IsSpace(s[i]) THEN Split(s, i + 1)
    ELSE WordFrom(s, i, RunEnd(s, i, NotSpace))

\* sep.join(words)
RECURSIVE Join(_, _)
Join(sep, words) ==
    IF words = <<>> THEN <<>>
    ELSE IF Len(words) = 1 THEN words[1]
    ELSE words[1] \o sep \o Join(sep, Tail(words))

\* str.strip(); keep is the set of positions that hold no whitespace
StripTo(s, keep) ==
    IF keep = {} THEN <<>>
    ELSE SubSeq(s, SetMin(keep), CHOOSE i \in keep : \A j \in keep : j <= i)
Strip(s) == StripTo(s, {i \in DOMAIN s : NotSpace(s[i])})

\* clean_text that leaves the URLs in
clean_text_keep_urls(text) ==
    IF ~Truthy(text) THEN PyStr(<<>>)
    ELSE PyStr(Strip(Join(<<" ">>, Split(BlankSpecials(text.v), 1))))

\* clean_text(text) for text a str or None
clean_text(text) ==
    IF ~Truthy(text) THEN PyStr(<<>>)
    ELSE PyStr(Strip(Join(<<" ">>, Split(BlankSpecials(RemoveUrls(text.v, 1)), 1))))

\* outcome of a call: a returned value or a raised exception
Ok(value) == [raised |-> FALSE, value |-> value]
Raise(exc) == [raised |-> TRUE, value |-> exc]

\* x or 0
Or0(x) == IF Truthy(x) THEN x ELSE PyInt(0)

\* calculate_engagement_rate with the shares left out of the total
calculate_engagement_rate_no_shares(likes, comments, shares, views) ==
    IF IsNum(views) /\ Num(views) = 0 THEN Ok(Frac(0, 1))
    ELSE IF ~IsNum(Or0(likes)) \/ ~IsNum(Or0(comments)) \/ ~IsNum(Or0(shares))
    THEN Raise("TypeError")
    ELSE IF ~IsNum(views) THEN Raise("TypeError")
    ELSE Ok(FMul(FDiv(FAdd(Or0(likes), Or0(comments)), views), PyInt(100)))

calculate_engagement_rate(likes, comments, shares, views) ==
    IF IsNum(views) /\ Num(views) = 0 THEN Ok(Frac(0, 1))
    ELSE IF ~IsNum(Or0(likes)) \/ ~IsNum(Or0(comments)) \/ ~IsNum(Or0(shares))
    THEN Raise("TypeError")
    ELSE IF ~IsNum(views) THEN Raise("TypeError")
    ELSE Ok(FMul(FDiv(FAdd(FAdd(Or0(likes), Or0(comments)), Or0(shares)), views),
                 PyInt(100)))

NeutralSentiment ==
    PyDict([polarity |-> Frac(0, 1), subjectivity |-> Frac(0, 1),
            label |-> "neutral", confidence |-> Frac(0, 1)])

\* tb is what TextBlob(clean_text(text)).sentiment does: it fails, or it
\* gives a polarity and a subjectivity
\* lines 56-69 of analyze_sentiment with >= and <= for the thresholds
Classified_inclusive(polarity, subjectivity) ==
    PyDict([polarity |-> polarity,
            subjectivity |-> subjectivity,
            label |-> IF FLe(Frac(1, 10), polarity) THEN "positive"
                      ELSE IF FLe(polarity, Frac(-1, 10)) THEN "negative"
                      ELSE "neutral",
            confidence |-> FAbs(polarity)])

\* lines 56-69 of analyze_sentiment
Classified(polarity, subjectivity) ==
    PyDict([polarity |-> polarity,
            subjectivity |-> subjectivity,
            label |-> IF FLt(Frac(1, 10), polarity) THEN "positive"
                      ELSE IF FLt(polarity, Frac(-1, 10)) THEN "negative"
                      ELSE "neutral",
            confidence |-> FAbs(polarity)])

\* analyze_sentiment without its try/except
analyze_sentiment_unguarded(text, tb) ==
    IF ~tb.ok THEN Raise("Exception")
    ELSE Ok(Classified(tb.polarity, tb.subjectivity))

analyze_sentiment(text, tb) ==
    IF ~tb.ok THEN Ok(NeutralSentiment)
    ELSE Ok(Classified(tb.polarity, tb.subjectivity))

----------------------------------------------------------------------------
(* backend/services/data_processor.py *)

\* hours between the published tick k and the clock; one tick is 6 hours
HoursOld(clock, k) == PyInt((clock - k) * 6)

\* f"{x}" for a str or None
Format(x) == IF x.t = "none" THEN <<"N","o","n","e">> ELSE x.v

\* lines 77-114 of _calculate_trending_score: the sum of the four factors
WeightedScore(item, clock) ==
    LET engagement_rate == Get(item, "engagement_rate", PyInt(0))
        s1 == IF FLt(PyInt(0), engagement_rate)
              THEN FMul(FMin(FDiv(engagement_rate, PyInt(10)), PyInt(1)), Frac(4, 10))
              ELSE Frac(0, 1)
        s2 == IF ~Has(item, "published_date") THEN s1
              ELSE IF item["published_date"].t # "isostr" THEN FAdd(s1, Frac(15, 100))
              ELSE LET hours_old == HoursOld(clock, item["published_date"].v)
                   IN  IF FLt(hours_old, PyInt(24))
                       THEN FAdd(s1, FMul(FSub(PyInt(1), FDiv(hours_old, PyInt(24))),
                                          Frac(3, 10)))
                       ELSE s1
        hashtags == Get(item, "hashtags", PyList(<<>>))
        s3 == IF Truthy(hashtags)
              THEN FAdd(s2, FMul(FMin(FDiv(PyInt(Len(hashtags.v)), PyInt(5)), PyInt(1)),
                                 Frac(2, 10)))
              ELSE s2
    IN  IF Has(item, "sentiment") /\ Truthy(item["sentiment"])
        THEN LET polarity == item["sentiment"].v.polarity
             IN  IF FLt(PyInt(0), polarity)
                 THEN FAdd(s3, FMul(FMin(polarity, PyInt(1)), Frac(1, 10)))
                 ELSE s3
        ELSE s3

\* _calculate_trending_score without the cap at 1.0
_calculate_trending_score_uncapped(item, clock) ==
    IF ~IsNum(Get(item, "engagement_rate", PyInt(0))) THEN Raise("TypeError")
    ELSE Ok(Round(WeightedScore(item, clock), 3))

\* item without the field key
Without(item, key) == [k \in DOMAIN item \ {key} |-> item[k]]

\* _calculate_trending_score with the sentiment factor left out
_calculate_trending_score_no_sentiment(item, clock) ==
    IF ~IsNum(Get(item, "engagement_rate", PyInt(0))) THEN Raise("TypeError")
    ELSE Ok(Round(FMin(WeightedScore(Without(item, "sentiment"), clock), PyInt(1)), 3))

\* _calculate_trending_score giving a date of 24 hours or more the default
\* recency score as well
_calculate_trending_score_stale_default(item, clock) ==
    IF ~IsNum(Get(item, "engagement_rate", PyInt(0))) THEN Raise("TypeError")
    ELSE IF /\ Has(item, "published_date")
            /\ item["published_date"].t = "isostr"
            /\ ~FLt(HoursOld(clock, item["published_date"].v), PyInt(24))
    THEN Ok(Round(FMin(WeightedScore(Put(item, "published_date", None), clock),
                       PyInt(1)), 3))
    ELSE Ok(Round(FMin(WeightedScore(item, clock), PyInt(1)), 3))

\* `engagement_rate > 0` raises TypeError for None
_calculate_trending_score(item, clock) ==
    IF ~IsNum(Get(item, "engagement_rate", PyInt(0))) THEN Raise("TypeError")
    ELSE Ok(Round(FMin(WeightedScore(item, clock), PyInt(1)), 3))

\* lines 31-40 of process_single_item: the engagement calculation
SetEngagementRate(item) ==
    IF ~(Has(item, "view_count") /\ Has(item, "like_count")) THEN Ok(item)
    ELSE LET views == Or0(Get(item, "view_count", PyInt(0)))
             likes == Or0(Get(item, "like_count", PyInt(0)))
             comments == Or0(Get(item, "comment_count", PyInt(0)))
         IN  IF ~IsNum(views) THEN Raise(item)
             ELSE IF FLt(PyInt(0), views)
             THEN IF ~IsNum(likes) \/ ~IsNum(comments) THEN Raise(item)
                  ELSE Ok(Put(item, "engagement_rate",
                              Round(FMul(FDiv(FAdd(likes, comments), views),
                                         PyInt(100)), 2)))
             ELSE Ok(Put(item, "engagement_rate", Frac(0, 1)))

\* lines 46-54 of process_single_item
WithTitleClean(item, title) ==
    IF Truthy(title) THEN Put(item, "title_clean", clean_text(title)) ELSE item
\* extraction from the title whatever the item carries
WithHashtags_always(item, title) ==
    IF Truthy(title) THEN Put(item, "hashtags", PyList(extract_hashtags(title.v)))
    ELSE item

WithHashtags(item, title) ==
    IF Truthy(title) /\ ~Truthy(Get(item, "hashtags", None))
    THEN Put(item, "hashtags", PyList(extract_hashtags(title.v)))
    ELSE item
WithDescriptionClean(item, description) ==
    IF Truthy(description) THEN Put(item, "description_clean", clean_text(description))
    ELSE item

\* lines 59-68 of process_single_item: the try/except around analyze_sentiment
SentimentOrNeutral(outcome) ==
    IF outcome.raised THEN NeutralSentiment ELSE outcome.value

\* lines 57-68 of process_single_item
WithSentiment(item, text_for_analysis, tb) ==
    IF text_for_analysis = <<>> THEN item
    ELSE Put(item, "sentiment",
             SentimentOrNeutral(analyze_sentiment(PyStr(text_for_analysis), tb)))

TextFieldsOf(item, title, description, tb) ==
    WithSentiment(
        WithDescriptionClean(WithHashtags(WithTitleClean(item, title), title),
                             description),
        Strip(Format(title) \o <<" ">> \o Format(description)), tb)

\* lines 42-68 of process_single_item: cleaned text, hashtags, sentiment
SetTextFields(item, tb) ==
    TextFieldsOf(item, Get(item, "title", PyStr(<<>>)),
                 Get(item, "description", PyStr(<<>>)), tb)

\* line 71 of process_single_item
WithTrendingScore(item, score) ==
    IF score.raised THEN Raise(item) ELSE Ok(Put(item, "trending_score", score.value))

\* lines 70-73 of process_single_item
ScoreItem(item, clock) == WithTrendingScore(item, _calculate_trending_score(item, clock))

\* lines 42-73 of process_single_item; e is the outcome of lines 31-40
AfterEngagement(e, clock, tb) ==
    IF e.raised THEN Raise(e.value) ELSE ScoreItem(SetTextFields(e.value, tb), clock)

\* The dict is enriched in place: `value` is the caller's dict after the call,
\* also when the call raised half way.
process_single_item(item, clock, tb) ==
    AfterEngagement(SetEngagementRate(Put(item, "processed_at", PyIso(clock))),
                    clock, tb)

\* The loop of process_content_batch stops at the first item whose enrichment
\* raises; the items before it are enriched, that item is left half enriched.
\* `items` is the caller's list after the call, `value` the list returned.
BatchOutcome(raised, items) == [raised |-> raised, value |-> items, items |-> items]

RECURSIVE ProcessFrom(_, _, _, _)
StoreItem(items, i, r, clock, tbs) ==
    IF r.raised THEN BatchOutcome(TRUE, [items EXCEPT ![i] = r.value])
    ELSE ProcessFrom([items EXCEPT ![i] = r.value], i + 1, clock, tbs)
ProcessFrom(items, i, clock, tbs) ==
    IF i > Len(items) THEN BatchOutcome(FALSE, items)
    ELSE StoreItem(items, i, process_single_item(items[i], clock, tbs[i]), clock, tbs)

\* process_content_batch returning the records last item first
Reversed(xs) == [i \in DOMAIN xs |-> xs[Len(xs) + 1 - i]]
NewestFirst(outcome) ==
    [raised |-> outcome.raised, value |-> Reversed(outcome.value), items |-> outcome.items]
process_content_batch_newest_first(items, clock, tbs) ==
    NewestFirst(ProcessFrom(items, 1, clock, tbs))

process_content_batch(items, clock, tbs) == ProcessFrom(items, 1, clock, tbs)

\* `needle in haystack` for two str
Contains(haystack, needle) ==
    \E i \in 1..(Len(haystack) - Len(needle) + 1) : StartsAt(haystack, i, needle)

trending_keywords ==
    << <<"v","i","r","a","l">>, <<"t","r","e","n","d","i","n","g">>, <<"h","o","t">>,
       <<"b","r","e","a","k","i","n","g">>, <<"n","e","w">>, <<"l","a","t","e","s","t">> >>

\* _calculate_hashtag_trend_score without the cap at 1.0
_calculate_hashtag_trend_score_uncapped(hashtag, count, total_items) ==
    IF total_items = 0 THEN Frac(0, 1)
    ELSE Round(FMul(Frac(count, total_items),
                    IF \E k \in DOMAIN trending_keywords :
                           Contains(Lower(hashtag), trending_keywords[k])
                    THEN Frac(15, 10) ELSE Frac(1, 1)), 3)

_calculate_hashtag_trend_score(hashtag, count, total_items) ==
    IF total_items = 0 THEN Frac(0, 1)
    ELSE LET frequency_score == Frac(count, total_items)
             keyword_boost ==
                 IF \E k \in DOMAIN trending_keywords :
                        Contains(Lower(hashtag), trending_keywords[k])
                 THEN Frac(15, 10) ELSE Frac(1, 1)
         IN  Round(FMin(FMul(frequency_score, keyword_boost), PyInt(1)), 3)

\* d[key] = d.get(key, 0) + 1 on a dict kept as a sequence of <<key, count>>
\* pairs in insertion order
Increment(d, key) ==
    IF \E i \in DOMAIN d : d[i][1] = key
    THEN [i \in DOMAIN d |-> IF d[i][1] = key THEN <<key, d[i][2] + 1>> ELSE d[i]]
    ELSE Append(d, <<key, 1>>)

RECURSIVE IncrementAll(_, _)
IncrementAll(d, keys) ==
    IF keys = <<>> THEN d ELSE IncrementAll(Increment(d, Head(keys)), Tail(keys))

\* the elements a for loop over a list or a str visits
Elements(x) == IF x.t = "str" THEN [i \in DOMAIN x.v |-> <<x.v[i]>>] ELSE x.v

\* sorted(xs, key=..., reverse=True): descending, equal keys keep their
\* order; Less(a, b) compares the keys of a and b
PlaceByRank(xs, rank) == [k \in DOMAIN xs |-> xs[CHOOSE i \in DOMAIN xs : rank[i] = k]]
SortedDesc(xs, Less(_, _)) ==
    PlaceByRank(xs, [i \in DOMAIN xs |->
        1 + Cardinality({j \in DOMAIN xs : Less(xs[i], xs[j])})
          + Cardinality({j \in 1..(i - 1) : ~Less(xs[j], xs[i]) /\ ~Less(xs[i], xs[j])})])

\* seq[:limit]
Slice(xs, limit) ==
    IF limit >= 0 THEN SubSeq(xs, 1, IF limit < Len(xs) THEN limit ELSE Len(xs))
    ELSE SubSeq(xs, 1, Len(xs) + limit)

RECURSIVE SumSeq(_)
SumSeq(xs) == IF xs = <<>> THEN PyInt(0) ELSE FAdd(Head(xs), SumSeq(Tail(xs)))

MaxSeq(xs) == xs[CHOOSE i \in DOMAIN xs : \A j \in DOMAIN xs : FLe(xs[j], xs[i])]
MinSeq(xs) == xs[CHOOSE i \in DOMAIN xs : \A j \in DOMAIN xs : FLe(xs[i], xs[j])]

\* the items of xs at the positions idx, in order
SelectAt(xs, idx) ==
    [k \in 1..Cardinality(idx) |->
        xs[CHOOSE i \in idx : Cardinality({j \in idx : j <= i}) = k]]

\* [x for x in xs if P(x)]
SelectItems(xs, P(_)) == SelectAt(xs, {i \in DOMAIN xs : P(xs[i])})

RECURSIVE Flatten(_)
Flatten(xss) == IF xss = <<>> THEN <<>> ELSE Head(xss) \o Flatten(Tail(xss))

\* item.get('platform', 'unknown') with None for the default
PlatformOf_or_none(item) == Get(item, "platform", None)

\* line 136 of analyze_trends
PlatformOf(item) == Get(item, "platform", PyStr("unknown"))

\* `if 'sentiment' in item:` in the place of `if sentiment:`
HasSentiment_present(item) == Has(item, "sentiment")

HasSentiment(item) == Has(item, "sentiment") /\ Truthy(item["sentiment"])
\* `if engagement_rate:` in the place of `if engagement_rate is not None:`
HasRate_truthy(item) == Truthy(Get(item, "engagement_rate", None))

HasRate(item) == Get(item, "engagement_rate", None).t # "none"
\* the sort key of analyze_trends with the order of the counts reversed
ByCount_ascending(a, b) == b[2] < a[2]

ByCount(a, b) == a[2] < b[2]

\* lines 162-170 of analyze_trends
EngagementStats(engagement_rates) ==
    IF engagement_rates = <<>> THEN <<>>
    ELSE [average |-> Round(FDiv(SumSeq(engagement_rates),
                                 PyInt(Len(engagement_rates))), 2),
          max |-> Round(MaxSeq(engagement_rates), 2),
          min |-> Round(MinSeq(engagement_rates), 2),
          count |-> Len(engagement_rates)]

\* lines 173-180 of analyze_trends
HashtagEntries(trending_hashtags, total_items) ==
    [i \in DOMAIN trending_hashtags |->
        [hashtag |-> trending_hashtags[i][1],
         count |-> trending_hashtags[i][2],
         trend_score |-> _calculate_hashtag_trend_score(
             trending_hashtags[i][1], trending_hashtags[i][2], total_items)]]

RECURSIVE SumCounts(_)
SumCounts(d) == IF d = <<>> THEN 0 ELSE Head(d)[2] + SumCounts(Tail(d))

\* lines 182-185 of analyze_trends
SentimentAnalysis(sentiment_counts) ==
    [distribution |-> sentiment_counts, total_analyzed |-> SumCounts(sentiment_counts)]

LabelsOf(items) ==
    [i \in DOMAIN items |-> Get(items[i]["sentiment"].v, "label", "neutral")]
RatesOf(items) == [i \in DOMAIN items |-> items[i]["engagement_rate"]]

\* lines 128-189 of analyze_trends: the counting loop and the report;
\* iterating a hashtags value of None raises TypeError
TrendReport(items, clock) ==
    IF \E i \in DOMAIN items : Get(items[i], "hashtags", PyList(<<>>)).t = "none"
    THEN Raise("TypeError")
    ELSE Ok([trending_hashtags |->
                HashtagEntries(
                    Slice(SortedDesc(
                              IncrementAll(<<>>, Flatten([i \in DOMAIN items |->
                                  Elements(Get(items[i], "hashtags", PyList(<<>>)))])),
                              ByCount), 15),
                    Len(items)),
             platform_distribution |->
                IncrementAll(<<>>, [i \in DOMAIN items |-> PlatformOf(items[i])]),
             sentiment_analysis |->
                SentimentAnalysis(
                    IncrementAll(<<>>, LabelsOf(SelectItems(items, HasSentiment)))),
             engagement_stats |-> EngagementStats(RatesOf(SelectItems(items, HasRate))),
             total_analyzed |-> Len(items),
             analysis_timestamp |-> PyIso(clock)])

\* analyze_trends without the early return for an empty list
analyze_trends_no_guard(items, clock) == TrendReport(items, clock)

analyze_trends(items, clock) ==
    IF items = <<>>
    THEN Ok([trending_hashtags |-> <<>>, platform_distribution |-> <<>>,
             sentiment_analysis |-> <<>>, engagement_stats |-> <<>>])
    ELSE TrendReport(items, clock)

ByScore(a, b) == FLt(Get(a, "trending_score", PyInt(0)),
                     Get(b, "trending_score", PyInt(0)))

\* get_top_trending_content without the sort
get_top_trending_content_unsorted(items, limit) == Slice(items, limit)

get_top_trending_content(items, limit) == Slice(SortedDesc(items, ByScore), limit)

filter_by_platform(items, platform) ==
    LET Match(item) == Get(item, "platform", None) = platform
    IN  SelectItems(items, Match)

\* filter_by_sentiment taking an item without a label for a neutral one
filter_by_sentiment_default_neutral(items, sentiment_label) ==
    LET Match(item) == Get(Get(item, "sentiment", PyDict(<<>>)).v, "label", "neutral")
                          = sentiment_label
    IN  SelectItems(items, Match)

filter_by_sentiment(items, sentiment_label) ==
    LET Match(item) == /\ Has(Get(item, "sentiment", PyDict(<<>>)).v, "label")
                       /\ item["sentiment"].v["label"] = sentiment_label
    IN  SelectItems(items, Match)

\* lines 255-263 of get_content_summary
SummaryReport(processed_items, trend_analysis, clock) ==
    IF trend_analysis.raised THEN Raise("TypeError")
    ELSE Ok([total_content |-> Len(processed_items),
             trend_analysis |-> trend_analysis.value,
             top_trending_content |-> get_top_trending_content(processed_items, 5),
             processing_summary |->
                 [items_processed |-> Len(processed_items),
                  processing_timestamp |-> PyIso(clock)]])

\* lines 249-263 of get_content_summary
SummaryFor(processed_items, clock) ==
    SummaryReport(processed_items, analyze_trends(processed_items, clock), clock)

\* r[i] is the outcome of building processed_items[i] (lines 242-247)
SummaryOf(r, clock) ==
    IF \E i \in DOMAIN r : r[i].raised THEN Raise("TypeError")
    ELSE SummaryFor([i \in DOMAIN r |-> r[i].value], clock)

\* get_content_summary without the test for processed_at
get_content_summary_always(items, clock, tbs) ==
    IF items = <<>>
    THEN Ok([total_content |-> 0, summary |-> "No content available for analysis"])
    ELSE SummaryOf([i \in DOMAIN items |->
                       process_single_item(items[i], clock, tbs[i])], clock)

\* process_single_item works on item.copy(): the caller's dicts are not touched
get_content_summary(items, clock, tbs) ==
    IF items = <<>>
    THEN Ok([total_content |-> 0, summary |-> "No content available for analysis"])
    ELSE SummaryOf([i \in DOMAIN items |->
                       IF ~Has(items[i], "processed_at")
                       THEN process_single_item(items[i], clock, tbs[i])
                       ELSE Ok(items[i])], clock)

\* The dicts get_content_summary works on. The caller's dicts are objects
\* 1..len(content_items); item.copy() (line 245) makes a new object, here
\* len(content_items) + i, for an item without processed_at.

\* get_content_summary without the copy
SummaryTargets_no_copy(items) == [i \in DOMAIN items |-> i]

\* the object that process_single_item is handed for item i, or that is
\* appended as it is (line 247)
SummaryTargets(items) ==
    [i \in DOMAIN items |->
        IF Has(items[i], "processed_at") THEN i ELSE Len(items) + i]

\* the loop of lines 243-247 gets as far as item i
SummaryReaches(items, i, clock, tbs) ==
    \A j \in 1..(i - 1) :
        ~Has(items[j], "processed_at")
            => ~process_single_item(items[j], clock, tbs[j]).raised

\* the caller's dicts after get_content_summary: object i has been written to
\* only if process_single_item was handed object i
SummaryItems(items, clock, tbs) ==
    [i \in DOMAIN items |->
        IF /\ SummaryTargets(items)[i] = i
           /\ ~Has(items[i], "processed_at")
           /\ SummaryReaches(items, i, clock, tbs)
        THEN process_single_item(items[i], clock, tbs[i]).value
        ELSE items[i]]

----------------------------------------------------------------------------
(* Inputs *)

MaxBatch == 2       \* longest list of content items
MaxNow == 1         \* last clock tick

Viral == <<"v","i","r","a","l">>
News == <<"n","e","w","s">>
TitleHot == <<"H","i"," ","#","H","o","t">>
TitleUrl == <<"#","N","e","w"," ","w","w","w",".","x",".","c","o">>
TextOk == <<"o","k">>

\* json.dumps(tags) for a list of str without characters to escape
JsonDumps(tags) ==
    <<"[">> \o Join(<<",", " ">>, [i \in DOMAIN tags |-> <<"\"">> \o tags[i] \o <<"\"">>])
            \o <<"]">>

\* what TextBlob's sentiment can do on one text
TBFail == [ok |-> FALSE, polarity |-> Frac(0, 1), subjectivity |-> Frac(0, 1)]
TB(p, q) == [ok |-> TRUE, polarity |-> Frac(p, 100), subjectivity |-> Frac(q, 100)]

\* content items as the collectors hand them over
FullItem ==
    [id |-> PyStr("full"), platform |-> PyStr("youtube"), title |-> PyStr(TitleHot),
     description |-> PyStr(TextOk), view_count |-> PyInt(100), like_count |-> PyInt(10),
     comment_count |-> PyInt(5), share_count |-> PyInt(5),
     published_date |-> PyIso(0), hashtags |-> PyList(<<Viral, News>>)]
BareItem == [id |-> PyStr("bare")]
TitleOnlyItem ==
    [id |-> PyStr("title"), platform |-> PyStr("instagram"), title |-> PyStr(TitleUrl),
     published_date |-> PyIso(-8)]
BadViewsItem ==
    [id |-> PyStr("badviews"), platform |-> PyStr("youtube"), title |-> PyStr(TitleHot),
     view_count |-> PyStr(<<"n","/","a">>), like_count |-> PyInt(1)]
NullItem ==
    [id |-> PyStr("null"), title |-> PyStr(<<>>), view_count |-> None,
     like_count |-> None, comment_count |-> None, hashtags |-> None,
     published_date |-> None]
JsonItem ==
    [id |-> PyStr("json"), platform |-> PyStr("instagram"), description |-> PyStr(TextOk),
     view_count |-> PyInt(50), like_count |-> PyInt(5), published_date |-> PyIso(2),
     hashtags |-> PyStr(JsonDumps(<<Viral>>))]

RawItems == {FullItem, BareItem, BadViewsItem, NullItem}

BatchOracles == {TB(50, 60), TB(-30, 40)}

MaxCount == 3       \* largest count handed to calculate_engagement_rate
MaxTags == 6        \* longest hashtag list of the graded sizes

\* a dict with the one key, or without it
Field(key, values) == {[k \in {key} |-> v] : v \in values} \cup {<<>>}
Merge(a, b) == [k \in DOMAIN a \cup DOMAIN b |-> IF k \in DOMAIN a THEN a[k] ELSE b[k]]

Tags(n) == [i \in 1..n |-> Viral]

CountArgs == {None} \cup {PyInt(n) : n \in 0..MaxCount}

Oracles == {TBFail, TB(-100, 100), TB(-11, 30), TB(-10, 0), TB(0, 0), TB(5, 50),
            TB(10, 20), TB(11, 20), TB(50, 60), TB(100, 100)}

\* texts handed to analyze_sentiment
\* texts are built from up to MaxWords words joined by single spaces
MaxWords == 3
Sentences(words) ==
    {Join(<<" ">>, ws) : ws \in UNION {[1..k -> words] : k \in 0..MaxWords}}

TagWords ==
    {<<"G","r","e","a","t">>,
     <<"#","V","i","r","a","l">>,
     <<"#","v","i","r","a","l">>,
     <<"d","a","y">>,
     <<"#">>,
     <<"#","#","H","o","t">>,
     <<"a","#","b","_","1">>,
     <<"#","A","-","b","!">>}
GreatViralDay ==
    <<"G","r","e","a","t"," ",
      "#","V","i","r","a","l"," ","#","v","i","r","a","l"," ","d","a","y">>
HashtagTexts == Sentences(TagWords) \cup {GreatViralDay}

UrlWords ==
    {<<"C","h","e","c","k">>,
     <<"h","t","t","p",":","/","/","x",".","c","o">>,
     <<"n","o","w">>,
     <<"w","w","w",".","x",".","c","o">>,
     <<"a",",","b","!">>,
     <<"h","t","t","p">>,
     <<" ">>,
     <<"x","\t","y">>,
     <<"a",".","w","w","w">>,
     <<"h","t","t","p","d">>}
CleanTexts == {None} \cup {PyStr(t) : t \in Sentences(UrlWords)}

Texts == {None, PyStr(<<>>), PyStr(TextOk), PyStr(TitleUrl)}

SentimentOf(tb) == analyze_sentiment(PyStr(TextOk), tb).value

BadDate == PyStr(<<"s","o","o","n">>)

\* items handed to _calculate_trending_score
ScoreItems ==
    {Merge(Merge(e, d), Merge(h, p)) :
        e \in Field("engagement_rate",
                    {None, PyInt(0), Frac(5, 1), Frac(25, 2), Frac(10000, 1)}),
        d \in Field("published_date",
                    {None, BadDate, PyIso(-8), PyIso(-4), PyIso(-1), PyIso(0), PyIso(3)}),
        h \in Field("hashtags",
                    {None, PyList(Tags(50))}
                    \cup {PyList(Tags(n)) : n \in 0..MaxTags}
                    \cup {PyStr(JsonDumps(Tags(n))) : n \in 0..2}),
        p \in Field("sentiment",
                    {SentimentOf(tb) : tb \in {TB(-100, 100), TB(0, 0), TB(5, 50),
                                               TB(50, 60), TB(100, 100)}})}

\* items handed to process_single_item
SingleItems ==
    {Merge(Merge(Merge(v, l), Merge(c, sh)), Merge(Merge(ti, de), Merge(h, d))) :
        v \in Field("view_count", {None, PyInt(0), PyInt(7), PyInt(100),
                                   PyStr(<<"n","/","a">>)}),
        l \in Field("like_count", {None, PyInt(10), PyStr(<<"n","/","a">>)}),
        c \in Field("comment_count", {PyInt(5)}),
        sh \in Field("share_count", {PyInt(5)}),
        ti \in Field("title", {None, PyStr(<<>>), PyStr(TitleHot), PyStr(TextOk)}),
        de \in Field("description", {PyStr(TextOk)}),
        h \in Field("hashtags", {None, PyList(<<>>), PyList(<<Viral, News>>)}),
        d \in Field("published_date", {PyIso(0)})}

SingleOracles == {TBFail, TB(-30, 40), TB(50, 60)}

\* sixteen different hashtags, one more than analyze_trends reports, the last
\* of them twice
ManyTags == [i \in 1..17 |-> <<LowerLetters[IF i = 17 THEN 16 ELSE i]>>]
ManyItem ==
    [id |-> PyStr("many"), hashtags |-> PyList(ManyTags), engagement_rate |-> Frac(0, 1)]
\* an item with an empty sentiment, a null engagement rate and a score of 0
QuietItem ==
    [id |-> PyStr("quiet"), platform |-> PyStr("instagram"), sentiment |-> PyDict(<<>>),
     engagement_rate |-> None, trending_score |-> Frac(0, 1)]

\* an item enriched elsewhere
PlainItem ==
    [id |-> PyStr("plain"), platform |-> PyStr("youtube"),
     hashtags |-> PyList(<<Viral, Viral>>), engagement_rate |-> Frac(5, 2),
     sentiment |-> SentimentOf(TB(-30, 40)), trending_score |-> Frac(1, 10)]

\* batches handed to the aggregate operations
MaxAggBatch == 2
AggItems ==
    {process_single_item(item, 0, TB(50, 60)).value :
        item \in {FullItem, TitleOnlyItem, JsonItem}}
    \cup {BareItem, ManyItem, QuietItem, PlainItem}
\* three items: thirds in the hashtag scores and in the average engagement
MixedBatch == <<ManyItem, PlainItem, process_single_item(FullItem, 0, TB(50, 60)).value>>
AggBatches == UNION {[1..n -> AggItems] : n \in 0..MaxAggBatch} \cup {MixedBatch}
Limits == {0, 1, 10}
Platforms == {PyStr("youtube"), PyStr("instagram")}
Labels == {"positive", "negative", "neutral"}

----------------------------------------------------------------------------
(* backend/utils/database.py *)

\* the characters json.dumps writes for the characters of a str: a quote and
\* a backslash get a backslash in front
RECURSIVE JsonEscape(_)
JsonEscape(s) ==
    IF s = <<>> THEN <<>>
    ELSE IF Head(s) \in {"\"", "\\"} THEN <<"\\", Head(s)>> \o JsonEscape(Tail(s))
    ELSE <<Head(s)>> \o JsonEscape(Tail(s))

JsonString(s) == <<"\"">> \o JsonEscape(s) \o <<"\"">>

\* json.dumps(x) for None, a str or a list of str
json_dumps(x) ==
    IF x.t = "none" THEN <<"n","u","l","l">>
    ELSE IF x.t = "str" THEN JsonString(x.v)
    ELSE <<"[">> \o Join(<<",", " ">>, [i \in DOMAIN x.v |-> JsonString(x.v[i])])
                 \o <<"]">>

\* the JSON string whose first character after the quote is s[i]: its
\* characters and the position after its closing quote
RECURSIVE ParseString(_, _, _)
ParseString(s, i, chars) ==
    IF s[i] = "\"" THEN [value |-> chars, next |-> i + 1]
    ELSE IF s[i] = "\\" THEN ParseString(s, i + 2, Append(chars, s[i + 1]))
    ELSE ParseString(s, i + 1, Append(chars, s[i]))

\* the elements of the JSON array from the element whose quote is s[i];
\* parsed is that element
RECURSIVE ParseElements(_, _, _)
AfterElement(s, parsed, elems) ==
    IF s[parsed.next] = "]" THEN Append(elems, parsed.value)
    ELSE ParseElements(s, parsed.next + 2, Append(elems, parsed.value))
ParseElements(s, i, elems) == AfterElement(s, ParseString(s, i + 1, <<>>), elems)

\* json.loads(s) for the texts json_dumps writes
json_loads(s) ==
    IF s = <<"n","u","l","l">> THEN None
    ELSE IF s[1] = "\"" THEN PyStr(ParseString(s, 2, <<>>).value)
    ELSE IF s[2] = "]" THEN PyList(<<>>)
    ELSE PyList(ParseElements(s, 2, <<>>))

\* the keys insert_content_item subscripts (KeyError when one is missing)
RequiredKeys == {"id", "title", "description", "platform", "author",
                 "published_date", "url"}
OptionalKeys == {"view_count", "like_count", "comment_count"}

\* sqlite3 binds None, int, float and str
Bindable(x) == x.t \in {"none", "int", "float", "str", "isostr"}

\* json.dumps raises TypeError for what it cannot serialise
Serialisable(x) == x.t \in {"none", "str", "list"}

\* the row the INSERT writes; created_at takes its default CURRENT_TIMESTAMP
RowOf(item, clock) ==
    [k \in RequiredKeys \cup OptionalKeys \cup {"hashtags", "created_at"} |->
        IF k = "hashtags" THEN PyStr(json_dumps(Get(item, "hashtags", PyList(<<>>))))
        ELSE IF k = "created_at" THEN PyIso(clock)
        ELSE Get(item, k, None)]

\* the statement is executed and committed
Writable(item, io) ==
    /\ RequiredKeys \subseteq DOMAIN item
    /\ io = "ok"
    /\ \A k \in (RequiredKeys \cup OptionalKeys) \cap DOMAIN item : Bindable(item[k])
    /\ Serialisable(Get(item, "hashtags", PyList(<<>>)))
    /\ item["title"].t # "none"
    /\ item["platform"].t # "none"

\* what insert_content_item returns and the table after it
Written(value, table) == [raised |-> FALSE, value |-> value, rows |-> table]

\* insert_content_item with a plain INSERT into a table without primary key
insert_content_item_no_replace(table, item, clock, io) ==
    IF ~Writable(item, io) THEN Written(FALSE, table)
    ELSE Written(TRUE, table \cup {RowOf(item, clock)})

\* INSERT OR REPLACE: the row with the same primary key goes (a NULL id
\* conflicts with no row); any exception leaves the table and gives False
insert_content_item(table, item, clock, io) ==
    IF ~Writable(item, io) THEN Written(FALSE, table)
    ELSE Written(TRUE, {r \in table : r["id"].t = "none" \/ r["id"] # item["id"]}
                           \cup {RowOf(item, clock)})

\* WHERE platform = ? when a platform is given
Selected(table, platform) ==
    IF Truthy(platform) THEN {r \in table : r["platform"] = platform} ELSE table

\* ORDER BY created_at DESC: the orders the query may deliver the rows of S
\* in; rows with equal created_at come in any order
RecentOrders(S) ==
    {seq \in [1..Cardinality(S) -> S] :
        /\ \A i, j \in DOMAIN seq : i # j => seq[i] # seq[j]
        /\ \A i, j \in DOMAIN seq :
              i < j => seq[i]["created_at"].v >= seq[j]["created_at"].v}

\* LIMIT ?: a negative limit is no limit
Limited(seq, limit) ==
    IF limit < 0 \/ limit >= Len(seq) THEN seq ELSE SubSeq(seq, 1, limit)

\* the row as it is, hashtags left as JSON text
Decoded_raw(row) == row

\* dict(zip(columns, row)) with the hashtags decoded when the text is truthy
Decoded(row) ==
    IF Truthy(row["hashtags"])
    THEN [row EXCEPT !["hashtags"] = json_loads(row["hashtags"].v)]
    ELSE row

\* get_recent_content; order is the order the query delivers the selected
\* rows in; any exception gives []
get_recent_content(order, limit, io) ==
    IF io # "ok" THEN <<>>
    ELSE [i \in DOMAIN Limited(order, limit) |-> Decoded(order[i])]

----------------------------------------------------------------------------
(* mcp_integration/context_manager.py *)

\* self.max_contexts, 100 in the source, scaled down
max_contexts == 2

\* lines 16-21 of create_context
NewContext(data, clock) ==
    [data |-> data, created_at |-> clock, last_used |-> clock, usage_count |-> 0]

\* ctx['last_used'] < datetime.now() - timedelta(hours=24)
Stale(ctx, clock) == HoursOld(clock, ctx.last_used).v > 24

\* _cleanup_contexts: the contexts not used for more than 24 hours go
_cleanup_contexts(ctxs, clock) ==
    [id \in {i \in DOMAIN ctxs : ~Stale(ctxs[i], clock)} |-> ctxs[id]]

\* lines 23-25 of create_context; ctxs already holds the new context
CleanIfNeeded(ctxs, clock) ==
    IF Cardinality(DOMAIN ctxs) > max_contexts THEN _cleanup_contexts(ctxs, clock)
    ELSE ctxs

\* create_context: the contexts after the call
create_context(ctxs, context_id, data, clock) ==
    CleanIfNeeded(Put(ctxs, context_id, NewContext(data, clock)), clock)

\* get_context: the value returned and the contexts after the call
get_context(ctxs, context_id, clock) ==
    IF context_id \in DOMAIN ctxs
    THEN [value |-> ctxs[context_id].data,
          contexts |-> [ctxs EXCEPT ![context_id].last_used = clock,
                                    ![context_id].usage_count = @ + 1]]
    ELSE [value |-> None, contexts |-> ctxs]

----------------------------------------------------------------------------
(* The processing pipeline: a collector appends items, the clock advances,   *)
(* the batch is enriched in place or summarised.                             *)

NoCall == [op |-> "none"]

\* process_single_item hands a text to analyze_sentiment
HasText(item) ==
    Strip(Format(Get(item, "title", PyStr(<<>>))) \o <<" ">>
          \o Format(Get(item, "description", PyStr(<<>>)))) # <<>>

\* one TextBlob outcome for every item whose text is analysed
OracleChoices(items, Analysed(_)) ==
    {tbs \in [DOMAIN items -> BatchOracles] :
        \A i \in DOMAIN items : ~Analysed(items[i]) => tbs[i] = TB(50, 60)}

Init ==
    /\ now = 0
    /\ content_items = <<>>
    /\ result = NoCall
    /\ rows = {}
    /\ contexts = <<>>

Tick ==
    /\ now < MaxNow
    /\ now' = now + 1
    /\ UNCHANGED <<content_items, result, rows, contexts>>

Collect ==
    /\ Len(content_items) < MaxBatch
    /\ \E item \in RawItems : content_items' = Append(content_items, item)
    /\ UNCHANGED <<now, result, rows, contexts>>

ProcessContentBatch ==
    \E tbs \in OracleChoices(content_items, HasText) :
        \E r \in {process_content_batch(content_items, now, tbs)} :
            /\ content_items' = r.items
            /\ result' = [op |-> "process_content_batch", args |-> content_items,
                          clock |-> now, raised |-> r.raised, value |-> r.value]
            /\ UNCHANGED <<now, rows, contexts>>

GetContentSummary ==
    \E tbs \in OracleChoices(content_items,
                              LAMBDA item : HasText(item) /\ ~Has(item, "processed_at")) :
        \E r \in {get_content_summary(content_items, now, tbs)} :
            /\ result' = [op |-> "get_content_summary", args |-> content_items,
                          clock |-> now, raised |-> r.raised, value |-> r.value]
            /\ content_items' = SummaryItems(content_items, now, tbs)
            /\ UNCHANGED <<now, rows, contexts>>

Next == Tick \/ Collect \/ ProcessContentBatch \/ GetContentSummary

Spec == Init /\ [][Next]_vars

----------------------------------------------------------------------------
(* The helpers and the per-item functions, called on their own *)

CallCalculateEngagementRate ==
    /\ result = NoCall
    /\ \E likes \in CountArgs, comments \in CountArgs,
          shares \in CountArgs, views \in CountArgs :
          \E r \in {calculate_engagement_rate(likes, comments, shares, views)} :
              result' = [op |-> "calculate_engagement_rate", likes |-> likes,
                         comments |-> comments, shares |-> shares, views |-> views,
                         raised |-> r.raised, value |-> r.value]
    /\ UNCHANGED <<now, content_items, rows, contexts>>

CallCalculateTrendingScore ==
    /\ result = NoCall
    /\ \E item \in ScoreItems :
          \E r \in {_calculate_trending_score(item, now)} :
              result' = [op |-> "_calculate_trending_score", item |-> item,
                         clock |-> now, raised |-> r.raised, value |-> r.value]
    /\ UNCHANGED <<now, content_items, rows, contexts>>

CallProcessSingleItem ==
    /\ result = NoCall
    /\ \E item \in SingleItems, tb \in SingleOracles :
          \E r \in {process_single_item(item, now, tb)} :
              result' = [op |-> "process_single_item", item |-> item, tb |-> tb,
                         clock |-> now, raised |-> r.raised, value |-> r.value]
    /\ UNCHANGED <<now, content_items, rows, contexts>>

CallAnalyzeSentiment ==
    /\ result = NoCall
    /\ \E text \in Texts, tb \in Oracles :
          \E r \in {analyze_sentiment(text, tb)} :
              result' = [op |-> "analyze_sentiment", text |-> text, tb |-> tb,
                         raised |-> r.raised, value |-> r.value]
    /\ UNCHANGED <<now, content_items, rows, contexts>>

CallExtractHashtags ==
    /\ result = NoCall
    /\ \E text \in HashtagTexts :
          result' = [op |-> "extract_hashtags", text |-> text, raised |-> FALSE,
                     value |-> extract_hashtags(text)]
    /\ UNCHANGED <<now, content_items, rows, contexts>>

CallCleanText ==
    /\ result = NoCall
    /\ \E text \in CleanTexts :
          result' = [op |-> "clean_text", text |-> text, raised |-> FALSE,
                     value |-> clean_text(text)]
    /\ UNCHANGED <<now, content_items, rows, contexts>>

\* the caller is done with the returned value
Return ==
    /\ result # NoCall
    /\ result' = NoCall
    /\ UNCHANGED <<now, content_items, rows, contexts>>

NextFn ==
    Tick \/ CallCalculateEngagementRate \/ CallCalculateTrendingScore
         \/ CallProcessSingleItem \/ CallAnalyzeSentiment
         \/ CallExtractHashtags \/ CallCleanText \/ Return

SpecFn == Init /\ [][NextFn]_vars

----------------------------------------------------------------------------
(* The aggregate operations on a batch that is already there *)

InitAgg ==
    /\ now = 0
    /\ content_items \in AggBatches
    /\ result = NoCall
    /\ rows = {}
    /\ contexts = <<>>

AnalyzeTrends ==
    /\ \E r \in {analyze_trends(content_items, now)} :
           result' = [op |-> "analyze_trends", args |-> content_items, clock |-> now,
                      raised |-> r.raised, value |-> r.value]
    /\ UNCHANGED <<now, content_items, rows, contexts>>

GetTopTrendingContent ==
    /\ \E limit \in Limits :
          result' = [op |-> "get_top_trending_content", args |-> content_items,
                     limit |-> limit, raised |-> FALSE,
                     value |-> get_top_trending_content(content_items, limit)]
    /\ UNCHANGED <<now, content_items, rows, contexts>>

FilterByPlatform ==
    /\ \E platform \in Platforms :
          result' = [op |-> "filter_by_platform", args |-> content_items,
                     platform |-> platform, raised |-> FALSE,
                     value |-> filter_by_platform(content_items, platform)]
    /\ UNCHANGED <<now, content_items, rows, contexts>>

FilterBySentiment ==
    /\ \E sentiment_label \in Labels :
          result' = [op |-> "filter_by_sentiment", args |-> content_items,
                     sentiment_label |-> sentiment_label, raised |-> FALSE,
                     value |-> filter_by_sentiment(content_items, sentiment_label)]
    /\ UNCHANGED <<now, content_items, rows, contexts>>

NextAgg ==
    Tick \/ AnalyzeTrends \/ GetTopTrendingContent \/ FilterByPlatform
         \/ FilterBySentiment \/ GetContentSummary

SpecAgg == InitAgg /\ [][NextAgg]_vars

----------------------------------------------------------------------------
(* The content_items table of the database *)

\* items handed to insert_content_item
MaxIds == 2
IdNames == <<"a", "b", "c", "d">>
DbIds == {PyStr(IdNames[i]) : i \in 1..MaxIds}
Youtube == <<"y","o","u","t","u","b","e">>
Instagram == <<"i","n","s","t","a","g","r","a","m">>
Quoted == <<"a","\"","b","\\">>
StoredItem(id, title, platform) ==
    [id |-> id, title |-> title, description |-> PyStr(TextOk), platform |-> platform,
     author |-> None, published_date |-> PyIso(0), url |-> PyStr(<<"u">>)]
DbItems ==
    UNION {{Merge(StoredItem(id, PyStr(TitleHot), PyStr(Youtube)),
                  [hashtags |-> PyList(<<Viral, News>>), view_count |-> PyInt(100)]),
            Merge(StoredItem(id, PyStr(TitleUrl), PyStr(Instagram)),
                  [hashtags |-> PyList(<<Quoted>>)]),
            StoredItem(id, PyStr(TextOk), PyStr(Youtube)),
            StoredItem(id, None, PyStr(Youtube)),
            Merge(StoredItem(id, PyStr(TextOk), PyStr(Youtube)),
                  [view_count |-> PyList(<<>>)]),
            Without(StoredItem(id, PyStr(TitleHot), PyStr(Youtube)), "url")} :
           id \in DbIds}
DbPlatforms == {None, PyStr(Instagram)}
DbLimits == {0, 1, 100}
IoOutcomes == {"ok", "fail"}

InsertContentItem ==
    /\ \E item \in DbItems, io \in IoOutcomes :
          \E r \in {insert_content_item(rows, item, now, io)} :
              /\ rows' = r.rows
              /\ result' = [op |-> "insert_content_item", item |-> item, io |-> io,
                            before |-> rows, clock |-> now,
                            raised |-> r.raised, value |-> r.value]
    /\ UNCHANGED <<now, content_items, contexts>>

GetRecentContent ==
    /\ \E platform \in DbPlatforms, limit \in DbLimits, io \in IoOutcomes :
          \E order \in RecentOrders(Selected(rows, platform)) :
              result' = [op |-> "get_recent_content", platform |-> platform,
                         limit |-> limit, io |-> io, raised |-> FALSE,
                         value |-> get_recent_content(order, limit, io)]
    /\ UNCHANGED <<now, content_items, rows, contexts>>

NextDb == Tick \/ InsertContentItem \/ GetRecentContent

SpecDb == Init /\ [][NextDb]_vars

----------------------------------------------------------------------------
(* The context manager of the trend analyzer *)

MaxUses == 1
ContextIds == {IdNames[i] : i \in 1..(max_contexts + 1)}
ContextData == {PyStr(TextOk), PyStr(TitleHot)}

CreateContext ==
    /\ \E context_id \in ContextIds, data \in ContextData :
          /\ contexts' = create_context(contexts, context_id, data, now)
          /\ result' = [op |-> "create_context", context_id |-> context_id,
                        data |-> data, clock |-> now, raised |-> FALSE, value |-> None]
    /\ UNCHANGED <<now, content_items, rows>>

GetContext ==
    /\ \E context_id \in ContextIds :
          /\ context_id \in DOMAIN contexts
                => contexts[context_id].usage_count < MaxUses
          /\ \E r \in {get_context(contexts, context_id, now)} :
                /\ contexts' = r.contexts
                /\ result' = [op |-> "get_context", context_id |-> context_id,
                              clock |-> now, raised |-> FALSE, value |-> r.value]
    /\ UNCHANGED <<now, content_items, rows>>

\* more than 24 hours pass
Sleep ==
    /\ now <= MaxNow
    /\ now' = now + (24 \div 6) + 1
    /\ UNCHANGED <<content_items, result, rows, contexts>>

NextCtx == Tick \/ Sleep \/ CreateContext \/ GetContext

SpecCtx == Init /\ [][NextCtx]_vars

----------------------------------------------------------------------------
(* Properties *)

InUnitInterval(x) == FLe(PyInt(0), x) /\ FLe(x, PyInt(1))

\* C1: the value _calculate_trending_score returns, and the trending_score
\* process_single_item stores, is at least 0 and at most 1 for every item
C1_TrendingScoreInUnitInterval ==
    /\ (result.op = "_calculate_trending_score" /\ ~result.raised)
          => InUnitInterval(result.value)
    /\ (result.op = "process_single_item" /\ ~result.raised)
          => /\ Has(result.value, "trending_score")
             /\ InUnitInterval(result.value["trending_score"])

\* an engagement rate of 10000 with 50 hashtags scores exactly 1
C1_Witness ==
    /\ result.op = "_calculate_trending_score"
    /\ ~result.raised
    /\ Get(result.item, "engagement_rate", None) = Frac(10000, 1)
    /\ Get(result.item, "hashtags", None) = PyList(Tags(50))
    /\ result.value = Frac(1, 1)

\* C2: process_content_batch returns every item that already carries
\* processed_at with the field values it had before the call
C2_BatchSkipsProcessedItems ==
    (result.op = "process_content_batch" /\ ~result.raised)
       => \A i \in DOMAIN result.args :
             Has(result.args[i], "processed_at") => result.value[i] = result.args[i]

DerivedKeys == {"processed_at", "engagement_rate", "title_clean", "description_clean",
                "sentiment", "hashtags", "trending_score"}

\* e is the item a after one enrichment at the given clock tick
EnrichedAt(a, e, clock) ==
    /\ Has(e, "processed_at") /\ e["processed_at"] = PyIso(clock)
    /\ Has(e, "trending_score")
    /\ \A k \in DOMAIN a \ DerivedKeys : Has(e, k) /\ e[k] = a[k]

\* C3: get_content_summary passes the items that carry processed_at to the
\* trend analysis and the top-trending selection unchanged, and enriches each
\* item without processed_at once
C3_SummaryEnrichesOnlyUnprocessed ==
    (result.op = "get_content_summary" /\ ~result.raised /\ result.args # <<>>)
       => LET args == result.args
              top == result.value.top_trending_content
              n == Len(args)
          IN  /\ result.value.total_content = n
              /\ result.value.trend_analysis.total_analyzed = n
              /\ Len(top) = (IF n < 5 THEN n ELSE 5)
              /\ n <= 5 =>
                    \E p \in Permutations(1..n) :
                       \A i \in 1..n :
                          IF Has(args[i], "processed_at")
                          THEN top[p[i]] = args[i]
                          ELSE EnrichedAt(args[i], top[p[i]], result.clock)
              /\ (\A i \in 1..n : Has(args[i], "processed_at"))
                    => /\ result.value.trend_analysis
                             = analyze_trends(args, result.clock).value
                       /\ top = get_top_trending_content(args, 5)

\* a summary of one enriched and one fresh item, taken after the enrichment
C3_Witness ==
    /\ result.op = "get_content_summary"
    /\ ~result.raised
    /\ \E i, j \in DOMAIN result.args :
          /\ Has(result.args[i], "processed_at")
          /\ result.args[i]["processed_at"] # PyIso(result.clock)
          /\ ~Has(result.args[j], "processed_at")

\* C4: process_content_batch returns normally, with one enriched record per
\* input item, for every batch
C4_BatchNeverAborts ==
    result.op = "process_content_batch"
       => /\ ~result.raised
          /\ Len(result.value) = Len(result.args)
          /\ \A i \in DOMAIN result.value : Has(result.value[i], "trending_score")

\* the count under key k: 0 when absent or null
CountOf(item, k) == IF Get(item, k, None).t = "int" THEN item[k].v ELSE 0
IsCount(item, k) == Get(item, k, None).t \in {"int", "none"}

\* C5: for an item with views > 0, process_single_item attaches the engagement
\* rate (likes + comments + shares) / views * 100
C5_ItemRateCountsShares ==
    (/\ result.op = "process_single_item"
     /\ CountOf(result.item, "view_count") > 0
     /\ IsCount(result.item, "like_count")
     /\ IsCount(result.item, "comment_count")
     /\ IsCount(result.item, "share_count"))
       => /\ ~result.raised
          /\ Has(result.value, "engagement_rate")
          /\ FEq(result.value["engagement_rate"],
                 Frac((CountOf(result.item, "like_count")
                       + CountOf(result.item, "comment_count")
                       + CountOf(result.item, "share_count")) * 100,
                      CountOf(result.item, "view_count")))

\* C6: for non-negative integer counts calculate_engagement_rate returns
\* (likes + comments + shares) / views * 100 when views > 0 and 0.0 when
\* views = 0; it does not raise and its result is not negative
C6_EngagementRateFormula ==
    (/\ result.op = "calculate_engagement_rate"
     /\ \A x \in {result.likes, result.comments, result.shares, result.views} :
           x.t = "int" /\ x.v >= 0)
       => /\ ~result.raised
          /\ result.value.t = "float"
          /\ result.value.v.n >= 0 /\ result.value.v.d > 0
          /\ IF result.views.v = 0
             THEN result.value.v.n = 0
             ELSE result.value.v.n * result.views.v
                     = (result.likes.v + result.comments.v + result.shares.v) * 100
                          * result.value.v.d

\* 1 like, 2 comments and 3 shares on 3 views are a rate of 200
C6_Witness ==
    /\ result.op = "calculate_engagement_rate"
    /\ result.likes = PyInt(1) /\ result.comments = PyInt(2)
    /\ result.shares = PyInt(3) /\ result.views = PyInt(3)
    /\ ~result.raised
    /\ result.value = Frac(200, 1)

ZeroIfNull(x) == IF x.t = "none" THEN PyInt(0) ELSE x

\* C7: calculate_engagement_rate treats a null count as 0: it does not raise
\* and returns what it returns with the null arguments replaced by 0
C7_NullCountsAreZero ==
    result.op = "calculate_engagement_rate"
       => /\ ~result.raised
          /\ result.value = calculate_engagement_rate(
                 ZeroIfNull(result.likes), ZeroIfNull(result.comments),
                 ZeroIfNull(result.shares), ZeroIfNull(result.views)).value

\* C8: every record process_single_item returns carries title_clean,
\* description_clean, sentiment, engagement_rate, trending_score and
\* processed_at, the engagement_rate being 0.0 without view_count or like_count
C8_AllDerivedFields ==
    (result.op = "process_single_item" /\ ~result.raised)
       => /\ {"title_clean", "description_clean", "sentiment", "engagement_rate",
              "trending_score", "processed_at"} \subseteq DOMAIN result.value
          /\ (~Has(result.item, "view_count") \/ ~Has(result.item, "like_count"))
                => FEq(result.value["engagement_rate"], PyInt(0))

\* C9: _calculate_trending_score gives an item whose hashtags are the JSON
\* text of a list the score it gives the same item with the decoded list
C9_JsonHashtagsScoreLikeList ==
    (result.op = "_calculate_trending_score" /\ ~result.raised)
       => \A n \in 0..2 :
             Get(result.item, "hashtags", None) = PyStr(JsonDumps(Tags(n)))
                => result.value
                      = _calculate_trending_score(
                            Put(result.item, "hashtags", PyList(Tags(n))),
                            result.clock).value

\* C10: on an empty batch analyze_trends returns the four empty entries,
\* get_top_trending_content and both filters return an empty list and
\* get_content_summary reports total_content 0; none of them raises
C10_EmptyBatchZeroValues ==
    (result.op # "none" /\ result.args = <<>>)
       => /\ ~result.raised
          /\ result.op = "analyze_trends"
                => result.value = [trending_hashtags |-> <<>>,
                                   platform_distribution |-> <<>>,
                                   sentiment_analysis |-> <<>>,
                                   engagement_stats |-> <<>>]
          /\ result.op \in {"get_top_trending_content", "filter_by_platform",
                            "filter_by_sentiment"}
                => result.value = <<>>
          /\ result.op = "get_content_summary" => result.value.total_content = 0

\* analyze_trends has returned for the empty batch
C10_Witness ==
    /\ result.op = "analyze_trends"
    /\ result.args = <<>>
    /\ ~result.raised
    /\ DOMAIN result.value = {"trending_hashtags", "platform_distribution",
                              "sentiment_analysis", "engagement_stats"}

\* the hashtags of the items whose hashtags are a list, in iteration order
ListedTags(items) ==
    Flatten([i \in DOMAIN items |-> Get(items[i], "hashtags", PyList(<<>>)).v])
Occurrences(tag, tags) == Cardinality({i \in DOMAIN tags : tags[i] = tag})
FirstSeen(tag, tags) == SetMin({i \in DOMAIN tags : tags[i] = tag})
AllListed(items) ==
    \A i \in DOMAIN items : Get(items[i], "hashtags", PyList(<<>>)).t = "list"
IsAnalysis == result.op = "analyze_trends" /\ result.args # <<>>

\* C11: on a non-empty batch of items whose hashtags are sequences,
\* trending_hashtags has at most 15 entries, one per hashtag, each with the
\* number of occurrences of its hashtag in the batch, in non-increasing order
\* of count; equal counts stand in the order of first occurrence, and a
\* hashtag that is left out has no larger count than any entry and, at an
\* equal count, was first met later
C11_TopHashtagsByCount ==
    (IsAnalysis /\ AllListed(result.args))
       => LET tags == ListedTags(result.args)
              th == result.value.trending_hashtags
              distinct == Range(tags)
              shown == {th[i].hashtag : i \in DOMAIN th}
          IN  /\ ~result.raised
              /\ Len(th) <= 15
              /\ Len(th) = (IF Cardinality(distinct) < 15 THEN Cardinality(distinct)
                            ELSE 15)
              /\ shown \subseteq distinct
              /\ \A i \in DOMAIN th : th[i].count = Occurrences(th[i].hashtag, tags)
              /\ \A i, j \in DOMAIN th :
                    i < j => /\ th[i].hashtag # th[j].hashtag
                             /\ th[i].count >= th[j].count
                             /\ th[i].count = th[j].count
                                   => FirstSeen(th[i].hashtag, tags)
                                         < FirstSeen(th[j].hashtag, tags)
              /\ \A tag \in distinct \ shown : \A i \in DOMAIN th :
                    /\ Occurrences(tag, tags) <= th[i].count
                    /\ Occurrences(tag, tags) = th[i].count
                          => FirstSeen(th[i].hashtag, tags) < FirstSeen(tag, tags)

\* a batch with more than 15 hashtags: the one met last leads with two
\* occurrences, fourteen follow with one each, and one is left out
C11_Witness ==
    /\ IsAnalysis /\ AllListed(result.args) /\ ~result.raised
    /\ Len(result.value.trending_hashtags) = 15
    /\ Cardinality(Range(ListedTags(result.args))) > 15
    /\ result.value.trending_hashtags[1].count = 2
    /\ result.value.trending_hashtags[2].count = 1
    /\ result.value.trending_hashtags[15].count = 1

\* y is x rounded to k decimals
RoundedTo(y, x, k) ==
    /\ Pow10(k) % Den(y) = 0
    /\ FLe(FAbs(FSub(y, x)), Frac(1, 2 * Pow10(k)))

BoostWords ==
    {<<"v","i","r","a","l">>, <<"t","r","e","n","d","i","n","g">>, <<"h","o","t">>,
     <<"b","r","e","a","k","i","n","g">>, <<"n","e","w">>, <<"l","a","t","e","s","t">>}
BoostOf(tag) ==
    IF \E w \in BoostWords : Contains(Lower(tag), w) THEN Frac(3, 2) ELSE Frac(1, 1)

\* C12: every entry of trending_hashtags for a batch of N >= 1 items has
\* trend_score = min(count / N * boost, 1) rounded to 3 decimals, boost being
\* 1.5 for a hashtag that contains a trending keyword and 1 otherwise; the
\* score lies in [0, 1], also when count > N
C12_HashtagTrendScore ==
    (IsAnalysis /\ ~result.raised)
       => \A i \in DOMAIN result.value.trending_hashtags :
             LET e == result.value.trending_hashtags[i]
                 N == Len(result.args)
             IN  /\ RoundedTo(e.trend_score,
                              FMin(FMul(Frac(e.count, N), BoostOf(e.hashtag)), PyInt(1)),
                              3)
                 /\ InUnitInterval(e.trend_score)
                 /\ (e.hashtag = Viral /\ e.count = 2 /\ N = 2)
                       => e.trend_score = Frac(1, 1)

\* two items with the hashtag viral once each: count 2 and trend_score 1.0
C12_Witness ==
    /\ IsAnalysis /\ ~result.raised /\ AllListed(result.args)
    /\ Len(result.args) = 2
    /\ \A i \in 1..2 : Occurrences(Viral, ListedTags(<<result.args[i]>>)) = 1
    /\ \E i \in DOMAIN result.value.trending_hashtags :
          result.value.trending_hashtags[i]
             = [hashtag |-> Viral, count |-> 2, trend_score |-> Frac(1, 1)]

RankScore(item) == IF Has(item, "trending_score") THEN item["trending_score"] ELSE PyInt(0)

\* C13: get_top_trending_content(items, n) returns the first min(n, len(items))
\* items of the input taken in descending order of trending_score, a missing
\* score ranking as 0 and equal scores keeping their input order; each returned
\* item stands at an input position of its own
C13_TopByScoreStable ==
    (result.op = "get_top_trending_content" /\ result.limit >= 0)
       => LET args == result.args
              top == result.value
              n == Len(args)
          IN  /\ ~result.raised
              /\ Len(top) = (IF result.limit < n THEN result.limit ELSE n)
              /\ \E p \in Permutations(1..n) :
                    /\ \A k, l \in 1..n :
                          k < l => \/ FLt(RankScore(args[p[l]]), RankScore(args[p[k]]))
                                   \/ /\ FEq(RankScore(args[p[l]]), RankScore(args[p[k]]))
                                      /\ p[k] < p[l]
                    /\ \A k \in DOMAIN top : top[k] = args[p[k]]

\* three items given in ascending order of score, the first without
\* trending_score, are returned in the reverse order
C13_Witness ==
    /\ result.op = "get_top_trending_content"
    /\ Len(result.args) = 3
    /\ ~Has(result.args[1], "trending_score")
    /\ FLt(PyInt(0), RankScore(result.args[2]))
    /\ FLt(RankScore(result.args[2]), RankScore(result.args[3]))
    /\ result.limit = 10
    /\ result.value = <<result.args[3], result.args[2], result.args[1]>>

\* the item meets the condition of the filter that was called
Wanted(item) ==
    IF result.op = "filter_by_platform"
    THEN Has(item, "platform") /\ item["platform"] = result.platform
    ELSE /\ Has(item, "sentiment")
         /\ item["sentiment"].t = "dict"
         /\ "label" \in DOMAIN item["sentiment"].v
         /\ item["sentiment"].v["label"] = result.sentiment_label

\* C14: filter_by_platform and filter_by_sentiment return, in input order,
\* exactly the items whose platform, respectively sentiment label, is the one
\* asked for, an item without a sentiment never being returned, and the
\* caller's list is afterwards what it was
C14_FiltersSelectAndKeepInput ==
    result.op \in {"filter_by_platform", "filter_by_sentiment"}
       => /\ ~result.raised
          /\ content_items = result.args
          /\ \E f \in [DOMAIN result.value -> DOMAIN result.args] :
                /\ \A k, l \in DOMAIN f : k < l => f[k] < f[l]
                /\ Range(f) = {i \in DOMAIN result.args : Wanted(result.args[i])}
                /\ \A k \in DOMAIN f : result.value[k] = result.args[f[k]]

\* of an item without sentiment and two items with sentiments of different
\* labels, filter_by_sentiment returns the one with the label asked for
C14_Witness ==
    /\ result.op = "filter_by_sentiment"
    /\ Len(result.args) = 3
    /\ ~Has(result.args[1], "sentiment")
    /\ Wanted(result.args[2])
    /\ Has(result.args[3], "sentiment") /\ ~Wanted(result.args[3])
    /\ result.value = <<result.args[2]>>
    /\ content_items = result.args

\* C15: the list process_content_batch returns is as long as its input, and
\* the record at each position is the enrichment of the input item at that
\* position, with the same id
C15_BatchKeepsOrder ==
    (result.op = "process_content_batch" /\ ~result.raised)
       => /\ Len(result.value) = Len(result.args)
          /\ \A i \in DOMAIN result.args :
                /\ Get(result.value[i], "id", None) = Get(result.args[i], "id", None)
                /\ EnrichedAt(result.args[i], result.value[i], result.clock)
                /\ \E tb \in BatchOracles :
                      result.value[i]
                         = process_single_item(result.args[i], result.clock, tb).value

\* a batch of two items with different ids has been enriched
C15_Witness ==
    /\ result.op = "process_content_batch" /\ ~result.raised
    /\ Len(result.args) = 2
    /\ result.args[1]["id"] # result.args[2]["id"]
    /\ result.value[1]["id"] = result.args[1]["id"]
    /\ Has(result.value[2], "trending_score")

\* C16: in platform_distribution every platform value met has one entry, whose
\* count is the number of items with that platform, the items without a
\* platform field being those of the entry "unknown"; the counts add up to the
\* number of items, which is total_analyzed
C16_PlatformDistribution ==
    (IsAnalysis /\ ~result.raised)
       => LET args == result.args
              pd == result.value.platform_distribution
              Under(key) ==
                  {i \in DOMAIN args :
                      IF Has(args[i], "platform") THEN args[i]["platform"] = key
                      ELSE key = PyStr("unknown")}
          IN  /\ \A k, l \in DOMAIN pd : k # l => pd[k][1] # pd[l][1]
              /\ \A k \in DOMAIN pd : pd[k][2] = Cardinality(Under(pd[k][1]))
              /\ \A i \in DOMAIN args : \E k \in DOMAIN pd : i \in Under(pd[k][1])
              /\ SumCounts(pd) = Len(args)
              /\ result.value.total_analyzed = Len(args)

\* one item without a platform and one youtube item give unknown: 1, youtube: 1
C16_Witness ==
    /\ IsAnalysis /\ ~result.raised
    /\ Len(result.args) = 2
    /\ ~Has(result.args[1], "platform")
    /\ Get(result.args[2], "platform", None) = PyStr("youtube")
    /\ result.value.platform_distribution
          = << <<PyStr("unknown"), 1>>, <<PyStr("youtube"), 1>> >>

\* the positions of the items with an engagement_rate that is not null
Rated(items) ==
    {i \in DOMAIN items :
        Has(items[i], "engagement_rate") /\ items[i]["engagement_rate"].t # "none"}
RECURSIVE SumRates(_, _)
SumRates(items, S) ==
    IF S = {} THEN PyInt(0)
    ELSE LET i == CHOOSE i \in S : TRUE
         IN  FAdd(items[i]["engagement_rate"], SumRates(items, S \ {i}))

\* C17: engagement_stats is empty when no item has a non-null engagement_rate;
\* otherwise count is the number of such items and average, max and min are
\* their mean, largest and smallest rate rounded to 2 decimals, with
\* min <= average <= max
C17_EngagementStats ==
    (IsAnalysis /\ ~result.raised)
       => LET args == result.args
              q == Rated(args)
              es == result.value.engagement_stats
              rate(i) == args[i]["engagement_rate"]
          IN  IF q = {} THEN DOMAIN es = {}
              ELSE /\ DOMAIN es = {"average", "max", "min", "count"}
                   /\ es.count = Cardinality(q)
                   /\ RoundedTo(es.average,
                                FDiv(SumRates(args, q), PyInt(Cardinality(q))), 2)
                   /\ \E i \in q : /\ \A j \in q : FLe(rate(j), rate(i))
                                    /\ RoundedTo(es.max, rate(i), 2)
                   /\ \E i \in q : /\ \A j \in q : FLe(rate(i), rate(j))
                                    /\ RoundedTo(es.min, rate(i), 2)
                   /\ FLe(es.min, es.average) /\ FLe(es.average, es.max)

\* rates 0.0, 2.5 and 15.0: count 3, average 5.83, min 0.0, max 15.0
C17_Witness ==
    /\ IsAnalysis /\ ~result.raised
    /\ Cardinality(Rated(result.args)) = 3
    /\ result.value.engagement_stats
          = [average |-> Frac(583, 100), max |-> Frac(15, 1), min |-> Frac(0, 1),
             count |-> 3]

\* the positions of the items with a sentiment result that is not empty
Carrying(items) ==
    {i \in DOMAIN items :
        /\ Has(items[i], "sentiment")
        /\ items[i]["sentiment"].t = "dict"
        /\ DOMAIN items[i]["sentiment"].v # {}}

\* C18: the sentiment distribution has one entry per label met among the items
\* with a non-empty sentiment result, counting those items; items without one
\* add nothing; total_analyzed is the sum of the counts and at most the number
\* of items
C18_SentimentDistribution ==
    (IsAnalysis /\ ~result.raised)
       => LET args == result.args
              sa == result.value.sentiment_analysis
              dist == sa.distribution
              LabelOf(i) == IF "label" \in DOMAIN args[i]["sentiment"].v
                            THEN args[i]["sentiment"].v["label"] ELSE "neutral"
          IN  /\ \A k, l \in DOMAIN dist : k # l => dist[k][1] # dist[l][1]
              /\ \A k \in DOMAIN dist :
                    /\ dist[k][2] >= 1
                    /\ dist[k][2]
                          = Cardinality({i \in Carrying(args) : LabelOf(i) = dist[k][1]})
              /\ \A i \in Carrying(args) : \E k \in DOMAIN dist : dist[k][1] = LabelOf(i)
              /\ sa.total_analyzed = SumCounts(dist)
              /\ sa.total_analyzed = Cardinality(Carrying(args))
              /\ sa.total_analyzed <= Len(args)

\* an item with an empty sentiment and a positive one: positive 1, total 1
C18_Witness ==
    /\ IsAnalysis /\ ~result.raised
    /\ Len(result.args) = 2
    /\ Get(result.args[1], "sentiment", None) = PyDict(<<>>)
    /\ 2 \in Carrying(result.args)
    /\ result.value.sentiment_analysis
          = [distribution |-> << <<"positive", 1>> >>, total_analyzed |-> 1]

\* the label goes with the polarity, and the confidence is its absolute value
LabelAgrees(s) ==
    LET n == s.polarity.v.n
        d == s.polarity.v.d
    IN  /\ d > 0
        /\ s.label \in {"positive", "negative", "neutral"}
        /\ s.label = "positive" <=> 10 * n > d
        /\ s.label = "negative" <=> 10 * n < -d
        /\ s.label = "neutral" <=> (-d <= 10 * n /\ 10 * n <= d)
        /\ s.confidence.v.d = d
        /\ s.confidence.v.n = (IF n < 0 THEN -n ELSE n)

\* C19: the result of analyze_sentiment is labelled positive exactly when its
\* polarity is above 0.1, negative exactly when it is below -0.1 and neutral
\* otherwise, 0.1 and -0.1 included; its confidence is abs(polarity); when
\* TextBlob answers, the polarity and the subjectivity are TextBlob's
C19_LabelFollowsPolarity ==
    /\ (result.op = "analyze_sentiment" /\ ~result.raised)
          => /\ result.value.t = "dict"
             /\ DOMAIN result.value.v
                   = {"polarity", "subjectivity", "label", "confidence"}
             /\ LabelAgrees(result.value.v)
             /\ result.tb.ok => /\ result.value.v.polarity = result.tb.polarity
                                /\ result.value.v.subjectivity = result.tb.subjectivity
    /\ (result.op = "process_single_item" /\ ~result.raised
                                          /\ Has(result.value, "sentiment"))
          => LabelAgrees(result.value["sentiment"].v)

\* a polarity of exactly 0.1 is labelled neutral with confidence 0.1
C19_Witness ==
    /\ result.op = "analyze_sentiment" /\ ~result.raised
    /\ result.tb.ok
    /\ result.value.v.polarity = Frac(1, 10)
    /\ result.value.v.label = "neutral"
    /\ result.value.v.confidence = Frac(1, 10)

NeutralDefault ==
    PyDict([polarity |-> Frac(0, 1), subjectivity |-> Frac(0, 1),
            label |-> "neutral", confidence |-> Frac(0, 1)])

\* C20: analyze_sentiment does not raise, and returns the neutral default
\* (polarity 0.0, subjectivity 0.0, label neutral, confidence 0.0) when the
\* polarity computation fails; process_single_item attaches the same default
\* to an item whose text could not be analysed, and its own handler turns a
\* failure of analyze_sentiment into that default
C20_SentimentFailureIsNeutral ==
    /\ result.op = "analyze_sentiment"
          => /\ ~result.raised
             /\ ~result.tb.ok => result.value = NeutralDefault
    /\ (result.op = "process_single_item" /\ ~result.raised /\ ~result.tb.ok
                                          /\ HasText(result.item))
          => /\ Has(result.value, "sentiment")
             /\ result.value["sentiment"] = NeutralDefault
    /\ SentimentOrNeutral(Raise("Exception")) = NeutralDefault

\* analyze_sentiment has returned the neutral default after a failure
C20_Witness ==
    /\ result.op = "analyze_sentiment"
    /\ ~result.tb.ok
    /\ ~result.raised
    /\ result.value = NeutralDefault

\* positions of text where a '#' is followed by a word character
TagStarts(text) ==
    {i \in 1..(Len(text) - 1) : text[i] = "#" /\ IsWord(text[i + 1])}

\* the word characters that follow the '#' at position i, up to the first
\* character that is not one
WordAfter(text, i) ==
    SubSeq(text, i + 1,
           CHOOSE e \in (i + 1)..Len(text) :
               /\ \A j \in (i + 1)..e : IsWord(text[j])
               /\ e = Len(text) \/ ~IsWord(text[e + 1]))

\* the k-th smallest element of a set of positions
Nth(S, k) == CHOOSE x \in S : Cardinality({y \in S : y <= x}) = k

\* C21: extract_hashtags returns, in order of occurrence and with duplicates
\* kept, one entry for each '#' followed by one or more word characters; each
\* entry is those word characters in lower case, without the '#'; a text with
\* no such substring yields the empty sequence.
C21_HashtagsInOrderLowerCase ==
    result.op = "extract_hashtags" =>
        /\ ~result.raised
        /\ Len(result.value) = Cardinality(TagStarts(result.text))
        /\ \A k \in DOMAIN result.value :
              /\ result.value[k] =
                     Lower(WordAfter(result.text, Nth(TagStarts(result.text), k)))
              /\ result.value[k] # <<>>
              /\ \A j \in DOMAIN result.value[k] :
                    /\ result.value[k][j] # "#"
                    /\ result.value[k][j] \notin Range(UpperLetters)
        /\ TagStarts(result.text) = {} => result.value = <<>>

\* "Great #Viral #viral day" yields [viral, viral]
C21_Witness ==
    /\ result.op = "extract_hashtags"
    /\ result.text = GreatViralDay
    /\ result.value = <<<<"v","i","r","a","l">>, <<"v","i","r","a","l">>>>

\* the whitespace-separated tokens of a text
TokensOf(text) == Split(text, 1)

\* a token that starts with http, https or www
UrlLike(w) == StartsAt(w, 1, <<"h","t","t","p">>) \/ StartsAt(w, 1, <<"w","w","w">>)

\* a token without punctuation in which no http or www occurs
PlainWord(w) ==
    /\ \A j \in DOMAIN w : IsWord(w[j])
    /\ \A j \in DOMAIN w :
          ~StartsAt(w, j, <<"h","t","t","p">>) /\ ~StartsAt(w, j, <<"w","w","w">>)

\* xs is ys with some elements left out
RECURSIVE IsSubsequence(_, _)
IsSubsequence(xs, ys) ==
    IF xs = <<>> THEN TRUE
    ELSE IF ys = <<>> THEN FALSE
    ELSE IF Head(xs) = Head(ys) THEN IsSubsequence(Tail(xs), Tail(ys))
    ELSE IsSubsequence(xs, Tail(ys))

\* a string of word characters and single spaces only, without whitespace at
\* either end
IsCleanString(v) ==
    /\ \A j \in DOMAIN v :
          /\ IsWord(v[j]) \/ v[j] = " "
          /\ j > 1 /\ v[j] = " " => v[j - 1] # " "
    /\ v # <<>> => NotSpace(v[1]) /\ NotSpace(v[Len(v)])

\* empty or absent input gives "", and the plain words of the input are kept
\* in order
KeepsPlainWords(text, v) ==
    /\ ~Truthy(text) => v = <<>>
    /\ Truthy(text) =>
          IsSubsequence(SelectSeq(TokensOf(text.v), PlainWord), TokensOf(v))

\* w stands in text at a place where whitespace or the end of the text follows
BareIn(text, w) ==
    \E i \in DOMAIN text :
        /\ StartsAt(text, i, w)
        /\ i + Len(w) > Len(text) \/ IsSpace(text[i + Len(w)])

FMax(a, b) == IF FLt(a, b) THEN b ELSE a

\* 0.4 * min(engagement_rate / 10, 1), an absent rate counting as 0
EnginePart(item) ==
    FMul(Frac(4, 10),
         FMin(FDiv(Get(item, "engagement_rate", PyInt(0)), PyInt(10)), PyInt(1)))

\* 0.2 * min(len(hashtags) / 5, 1), absent or null hashtags counting as none
HashtagPart(item) ==
    IF Get(item, "hashtags", None).t = "none" THEN Frac(0, 1)
    ELSE FMul(Frac(2, 10),
              FMin(FDiv(PyInt(Len(item["hashtags"].v)), PyInt(5)), PyInt(1)))

\* 0.1 * min(max(polarity, 0), 1), no sentiment counting as polarity 0
SentimentPart(item) ==
    IF ~Has(item, "sentiment") \/ DOMAIN item["sentiment"].v = {} THEN Frac(0, 1)
    ELSE FMul(Frac(1, 10),
              FMin(FMax(item["sentiment"].v.polarity, PyInt(0)), PyInt(1)))

\* the score of an item to whose total the recency handling adds `recency`
ScoreWith(item, recency) ==
    Round(FMin(FAdd(FAdd(FAdd(EnginePart(item), recency), HashtagPart(item)),
                    SentimentPart(item)),
               PyInt(1)), 3)

Parses(item) == Has(item, "published_date") /\ item["published_date"].t = "isostr"

AgeOf(item, clock) == HoursOld(clock, item["published_date"].v)

\* 0.3 * (1 - hours_old / 24)
Freshness(hours_old) == FMul(Frac(3, 10), FSub(PyInt(1), FDiv(hours_old, PyInt(24))))

\* C24: in _calculate_trending_score a published date that parses and is 24
\* hours old or older adds 0 for recency, an absent published_date adds 0, a
\* published_date that is present but does not parse (malformed or null) adds
\* a flat 0.15 to the total, and no other case adds the 0.15: a date that
\* parses and is younger adds 0.3 * (1 - hours_old / 24).
C24_RecencyDefaultOnlyWhenUnparsed ==
    (result.op = "_calculate_trending_score" /\ ~result.raised) =>
        result.value =
            ScoreWith(result.item,
                      IF ~Has(result.item, "published_date") THEN Frac(0, 1)
                      ELSE IF ~Parses(result.item) THEN Frac(15, 100)
                      ELSE IF FLt(AgeOf(result.item, result.clock), PyInt(24))
                      THEN Freshness(AgeOf(result.item, result.clock))
                      ELSE Frac(0, 1))

\* a malformed date alone scores 0.15
C24_Witness ==
    /\ result.op = "_calculate_trending_score"
    /\ ~result.raised
    /\ result.item = [k \in {"published_date"} |-> BadDate]
    /\ result.value = Frac(15, 100)

\* item carries none of the fields other than key that the score looks at
OnlyFactor(item, key) ==
    DOMAIN item \cap {"engagement_rate", "published_date", "hashtags", "sentiment"}
        = {key}

\* C25: every sub-score is clamped to [0,1] before it is weighted, so the
\* engagement part adds at most 0.4, the recency part at most 0.3, the hashtag
\* part at most 0.2 and the sentiment part at most 0.1 to the total, also for
\* an item whose published timestamp lies in the future.
C25_EachPartWithinItsWeight ==
    (result.op = "_calculate_trending_score" /\ ~result.raised) =>
        /\ OnlyFactor(result.item, "engagement_rate") => FLe(result.value, Frac(4, 10))
        /\ OnlyFactor(result.item, "published_date") => FLe(result.value, Frac(3, 10))
        /\ OnlyFactor(result.item, "hashtags") => FLe(result.value, Frac(2, 10))
        /\ OnlyFactor(result.item, "sentiment") => FLe(result.value, Frac(1, 10))
        /\ FLe(ScoreWith(result.item, Frac(0, 1)), result.value)
        /\ FLe(result.value, ScoreWith(result.item, Frac(3, 10)))

\* the items the formula of the score is stated for: the published date
\* parses, the hashtags are a list or absent
Scorable(item) ==
    /\ Parses(item)
    /\ Get(item, "hashtags", PyList(<<>>)).t = "list"

\* r = 1 - hours_old / 24 when hours_old < 24 and 0 otherwise, weighted 0.3
RecencyPart(hours_old) ==
    IF FLt(hours_old, PyInt(24)) THEN Freshness(hours_old) ELSE Frac(0, 1)

Records(before, after, op) ==
    /\ after.op = op
    /\ \/ before.op # op
       \/ before.args # after.args
       \/ before.clock # after.clock
       \/ before.raised # after.raised
       \/ ~before.raised /\ before.value # after.value

\* C27: get_content_summary leaves every record of the caller's list with the
\* fields and values it had, while process_content_batch enriches the
\* caller's records in place and returns those same records.
C27_SummaryCopiesBatchMutates ==
    [][/\ Records(result, result', "get_content_summary")
             => /\ result'.args = content_items
                /\ content_items' = content_items
       /\ (Records(result, result', "process_content_batch") /\ ~result'.raised)
             => /\ result'.args = content_items
                /\ content_items' = result'.value
                /\ \A i \in DOMAIN content_items :
                      EnrichedAt(content_items[i], content_items'[i], now)]_vars

\* a summary has been taken of a list with an item that was never enriched,
\* and the list still holds that item without processed_at
C27_Witness ==
    /\ result.op = "get_content_summary"
    /\ ~result.raised
    /\ content_items = result.args
    /\ \E i \in DOMAIN content_items :
          /\ ~Has(content_items[i], "processed_at")
          /\ \E j \in DOMAIN result.value.top_trending_content :
                /\ Has(result.value.top_trending_content[j], "processed_at")
                /\ result.value.top_trending_content[j]["id"] = content_items[i]["id"]

\* the item carries a non-empty hashtags sequence
Tagged(item) ==
    Has(item, "hashtags") /\ item["hashtags"].t = "list" /\ item["hashtags"].v # <<>>

\* the item has a non-empty title
Titled(item) == Has(item, "title") /\ item["title"].t = "str" /\ item["title"].v # <<>>

\* both items have the same hashtags, or both have none
SameHashtags(a, b) ==
    /\ Has(a, "hashtags") <=> Has(b, "hashtags")
    /\ Has(a, "hashtags") => a["hashtags"] = b["hashtags"]

\* C28: process_single_item keeps a non-empty hashtags sequence of the input
\* as it is; it sets hashtags to the hashtags of the title exactly when the
\* title is non-empty and the hashtags are absent or empty; an item with
\* neither title nor hashtags keeps its hashtags absent or empty.
C28_SuppliedHashtagsKept ==
    result.op = "process_single_item" =>
        /\ Tagged(result.item) => SameHashtags(result.item, result.value)
        /\ (~result.raised /\ ~Tagged(result.item) /\ Titled(result.item)) =>
              /\ Has(result.value, "hashtags")
              /\ result.value["hashtags"]
                    = PyList(extract_hashtags(result.item["title"].v))
        /\ (~Tagged(result.item) /\ ~Titled(result.item)) =>
              SameHashtags(result.item, result.value)

\* an item with the title "Hi #Hot" and the hashtags [viral, news] keeps them
C28_Witness ==
    /\ result.op = "process_single_item"
    /\ ~result.raised
    /\ Get(result.item, "title", None) = PyStr(TitleHot)
    /\ Get(result.item, "hashtags", None) = PyList(<<Viral, News>>)
    /\ result.value["hashtags"] = PyList(<<Viral, News>>)

\* the hashtags an item is inserted with, none counting as the empty list
InsertedHashtags(item) == Get(item, "hashtags", PyList(<<>>))

\* row holds the field values of item
HoldsItem(row, item) ==
    /\ \A k \in RequiredKeys \cup OptionalKeys : row[k] = Get(item, k, None)
    /\ Decoded(row)["hashtags"] = InsertedHashtags(item)

\* C23: the table holds at most one row per id; a successful insert leaves
\* under the item's id exactly one row, with the item's field values, and the
\* rows of the other ids as they were, a failed one leaves every row (so each
\* row holds the values of the most recent successful insert with its id);
\* get_recent_content returns no two items with the same id and at most limit
\* items.
C23_UpsertKeyedById ==
    /\ \A r1, r2 \in rows : r1["id"] = r2["id"] => r1 = r2
    /\ result.op = "insert_content_item" =>
          IF result.value
          THEN /\ \E r \in rows : r["id"] = result.item["id"] /\ HoldsItem(r, result.item)
               /\ {r \in rows : r["id"] # result.item["id"]}
                     = {r \in result.before : r["id"] # result.item["id"]}
          ELSE rows = result.before
    /\ result.op = "get_recent_content" =>
          /\ Len(result.value) <= result.limit
          /\ \A i, j \in DOMAIN result.value :
                i # j => result.value[i]["id"] # result.value[j]["id"]

\* an insert has replaced the row of its id by one with another title
C23_Witness ==
    /\ result.op = "insert_content_item"
    /\ result.value
    /\ \E r \in result.before :
          /\ r["id"] = result.item["id"]
          /\ r["title"] # result.item["title"]
          /\ r \notin rows

\* C30: insert_content_item never raises; for an item without one of id,
\* title, description, platform, author, published_date, url, or when the
\* write fails, it returns False, and whenever it returns False the table
\* holds the rows it held before; when it returns True the item's row is
\* there and a following get_recent_content returns the item with the list
\* of hashtags it was inserted with.
C30_InsertAllOrNothing ==
    result.op = "insert_content_item" =>
        /\ ~result.raised
        /\ result.value \in BOOLEAN
        /\ (~(RequiredKeys \subseteq DOMAIN result.item) \/ result.io = "fail")
              => ~result.value
        /\ ~result.value => rows = result.before
        /\ result.value =>
              /\ \E r \in rows : r["id"] = result.item["id"]
              /\ InsertedHashtags(result.item).t = "list" =>
                    \A order \in RecentOrders(Selected(rows, None)) :
                        \E i \in DOMAIN get_recent_content(order, 100, "ok") :
                            /\ get_recent_content(order, 100, "ok")[i]["id"]
                                  = result.item["id"]
                            /\ get_recent_content(order, 100, "ok")[i]["hashtags"]
                                  = InsertedHashtags(result.item)

\* an item without url has been refused while the table held a row of its
\* id, stored with a hashtag that holds a quote and a backslash
C30_Witness ==
    /\ result.op = "insert_content_item"
    /\ ~result.value
    /\ "url" \notin DOMAIN result.item
    /\ \E r \in rows :
          /\ r["id"] = result.item["id"]
          /\ Decoded(r)["hashtags"] = PyList(<<Quoted>>)

\* C29: once create_context has returned, the number of stored contexts is
\* at most max_contexts, and get_context returns for the context just created
\* the data it was created with.
C29_ContextsBounded ==
    result.op = "create_context" =>
        /\ Cardinality(DOMAIN contexts) <= max_contexts
        /\ get_context(contexts, result.context_id, now).value = result.data

====
